---- MODULE Spec2Model ----
(***************************************************************************)
(* Hotel room reservation back end: the inventory of HotelBookingSystem    *)
(* (booking_logic.py), its travel-time model, its two-tier room allocator  *)
(* and the booking service operations book_rooms, reset_all_bookings and   *)
(* generate_random_occupancy.                                              *)
(***************************************************************************)
EXTENDS Integers, Sequences, FiniteSets, TLC

VARIABLES
    rooms,      \* self.rooms: the dict room_number -> Room, as the sequence of
                \* its values in insertion order (a Python dict keeps it)
    result,     \* what the last service call returned or raised
    history,    \* the book calls served since the inventory was last reset,
                \* each with its arguments and the rooms it returned
    calls       \* the book_rooms calls of concurrent callers: for each
                \* caller the line its call has reached and the call's locals

vars == <<rooms, result, history, calls>>

----------------------------------------------------------------------------
(* Values of models.py *)

AVAILABLE == "available"
BOOKED == "booked"

\* Python's None, as a guest_id (guest identifiers are strings)
None == "None"

\* Optional[List[Room]]: None, or a list
NoneList == [is_none |-> TRUE, list |-> <<>>]
SomeList(l) == [is_none |-> FALSE, list |-> l]
\* Python truthiness of an Optional[List]: None and [] are both falsy
Truthy(o) == ~o.is_none /\ o.list # <<>>

Room(room_number, floor, position, status) ==
    [room_number |-> room_number, floor |-> floor, position |-> position,
     status |-> status, guest_id |-> None]

----------------------------------------------------------------------------
(* Program constants *)

LowFloors == 9          \* floors 1..9 are built by range(1, 10)
RoomsPerFloor == 10     \* range(10)
TopFloor == 10
TopFloorRooms == 7      \* range(7)
MinRequest == 1
MaxRequest == 5
VerticalMinutes == 2    \* minutes per floor
RandintLow == 1000
RandintHigh == 9999

----------------------------------------------------------------------------
(* Sequence helpers standing for Python built-ins *)

Abs(x) == IF x < 0 THEN -x ELSE x

Min(a, b) == IF a < b THEN a ELSE b

\* s[from:to] of a Python list (0-based, to exclusive), on a 1-based sequence
Slice(s, from, to) ==
    IF Min(to, Len(s)) <= from THEN <<>> ELSE SubSeq(s, from + 1, Min(to, Len(s)))

\* the sort keys used by the code: lambda r: r.position and
\* lambda r: (r.floor, r.position); tuples compare lexicographically
SortKey(r, key) == IF key = "position" THEN <<0, r.position>> ELSE <<r.floor, r.position>>

KeyLess(a, b) == a[1] < b[1] \/ (a[1] = b[1] /\ a[2] < b[2])

\* sorted(list, key=...): stable, ascending
RECURSIVE InsertSorted(_, _, _)
InsertSorted(x, s, key) ==
    IF s = <<>> THEN <<x>>
    ELSE IF KeyLess(SortKey(x, key), SortKey(Head(s), key)) THEN <<x>> \o s
    ELSE <<Head(s)>> \o InsertSorted(x, Tail(s), key)

RECURSIVE SortedInto(_, _, _)
SortedInto(done, s, key) ==
    IF s = <<>> THEN done
    ELSE SortedInto(InsertSorted(Head(s), done, key), Tail(s), key)

Sorted(s, key) == SortedInto(<<>>, s, key)

\* reversed(s)
Reversed(s) == [i \in 1..Len(s) |-> s[Len(s) + 1 - i]]

\* the elements of a sequence, as a set
Range(s) == {s[i] : i \in 1..Len(s)}

\* [f(x) for x in s]
RoomNumbersOf(s) == [i \in 1..Len(s) |-> s[i].room_number]

----------------------------------------------------------------------------
(* Room inventory *)

\* the rooms one floor contributes: for pos in range(n): floor * 100 + (pos + 1)
FloorRooms(floor, n) ==
    [i \in 1..n |-> Room(floor * 100 + ((i - 1) + 1), floor, i - 1, AVAILABLE)]

\* for floor in range(1, 10): ...
RECURSIVE LowFloorRooms(_)
LowFloorRooms(floor) ==
    IF floor > LowFloors THEN <<>>
    ELSE FloorRooms(floor, RoomsPerFloor) \o LowFloorRooms(floor + 1)

\* _initialize_rooms giving the top floor as many rooms as the others
InitialRoomsFullTopFloor == LowFloorRooms(1) \o FloorRooms(TopFloor, RoomsPerFloor)

\* _initialize_rooms: floors 1-9 with 10 rooms each, then floor 10 with 7
InitialRooms == LowFloorRooms(1) \o FloorRooms(TopFloor, TopFloorRooms)

\* list(self.rooms.keys())
RoomKeys(rs) == RoomNumbersOf(rs)

\* self.rooms[room_number]: the index of the entry with that key
RoomIndex(rs, room_number) == CHOOSE i \in 1..Len(rs) : rs[i].room_number = room_number

\* get_available_rooms, in dict order
get_available_rooms(rs) == SelectSeq(rs, LAMBDA r : r.status = AVAILABLE)

\* get_statistics
get_statistics(rs) ==
    LET total == Len(rs)
        booked == Cardinality({i \in 1..Len(rs) : rs[i].status = BOOKED})
    IN [total_rooms |-> total, booked_rooms |-> booked, available_rooms |-> total - booked]

----------------------------------------------------------------------------
(* Travel-time model *)

calculate_travel_time(room1, room2) ==
    IF room1.floor = room2.floor
    THEN Abs(room1.position - room2.position)
    ELSE LET vertical_time == Abs(room1.floor - room2.floor) * VerticalMinutes
             horizontal_time == room1.position + room2.position
         IN vertical_time + horizontal_time

calculate_travel_time_from_reception(room) ==
    room.floor * VerticalMinutes + room.position

\* get_path_from_reception: the steps by kind (their text is presentation)
get_path_from_reception(room) ==
    LET up == IF room.floor > 0 THEN <<"stairs_up">> ELSE <<>>
        t1 == IF room.floor > 0 THEN room.floor * VerticalMinutes ELSE 0
        walk == IF room.position > 0 THEN <<"walk_from_stairs">>
                ELSE IF room.floor > 0 THEN <<"at_stairs">> ELSE <<>>
        t2 == IF room.position > 0 THEN room.position ELSE 0
        ground == IF room.floor = 0
                  THEN (IF room.position > 0 THEN <<"walk_from_reception">>
                        ELSE <<"at_reception">>)
                  ELSE <<>>
        t3 == IF room.floor = 0 /\ room.position > 0 THEN room.position ELSE 0
    IN [steps |-> up \o walk \o ground, total_time |-> t1 + t2 + t3,
        room_number |-> room.room_number, floor |-> room.floor,
        position |-> room.position]

calculate_total_travel_time(rs) ==
    IF Len(rs) <= 1 THEN 0
    ELSE LET sorted_rooms == Sorted(rs, "floor_position")
         IN calculate_travel_time(sorted_rooms[1], sorted_rooms[Len(sorted_rooms)])

----------------------------------------------------------------------------
(* Room allocator *)

\* the floors that are keys of available_by_floor
AvailableFloors(available) == {available[i].floor : i \in 1..Len(available)}

\* available_by_floor[floor]: the available rooms of a floor, in dict order
RoomsOfFloor(available, floor) == SelectSeq(available, LAMBDA r : r.floor = floor)

\* sorted(available_by_floor.keys())
RECURSIVE SortedFloors(_)
SortedFloors(floors) ==
    IF floors = {} THEN <<>>
    ELSE LET lowest == CHOOSE f \in floors : \A g \in floors : f <= g
         IN <<lowest>> \o SortedFloors(floors \ {lowest})

\* all(positions[j] == positions[0] + j for j in range(len(positions)))
PositionsConsecutive(consecutive) ==
    \A j \in 0..(Len(consecutive) - 1) :
        consecutive[j + 1].position = consecutive[1].position + j

\* the loop of _find_consecutive_rooms from window start i (0-based)
RECURSIVE ConsecutiveFrom(_, _, _)
ConsecutiveFrom(sorted_rooms, num_rooms, i) ==
    IF i >= Len(sorted_rooms) - num_rooms + 1 THEN NoneList
    ELSE LET consecutive == Slice(sorted_rooms, i, i + num_rooms)
         IN IF PositionsConsecutive(consecutive) THEN SomeList(consecutive)
            ELSE ConsecutiveFrom(sorted_rooms, num_rooms, i + 1)

\* _find_consecutive_rooms without its scan: it never finds a block
_find_consecutive_rooms_never(sorted_rooms, num_rooms) == NoneList

_find_consecutive_rooms(sorted_rooms, num_rooms) ==
    IF Len(sorted_rooms) < num_rooms THEN NoneList
    ELSE ConsecutiveFrom(sorted_rooms, num_rooms, 0)

\* the loop of find_rooms_on_same_floor over the sorted floors
RECURSIVE SameFloorFrom(_, _, _)
SameFloorFrom(available, floors, num_rooms) ==
    IF floors = <<>> THEN NoneList
    ELSE LET floor_rooms == Sorted(RoomsOfFloor(available, Head(floors)), "position")
         IN IF Len(floor_rooms) >= num_rooms
            THEN LET best_consecutive == _find_consecutive_rooms(floor_rooms, num_rooms)
                 IN IF Truthy(best_consecutive) THEN best_consecutive
                    ELSE SomeList(Slice(floor_rooms, 0, num_rooms))
            ELSE SameFloorFrom(available, Tail(floors), num_rooms)

\* find_rooms_on_same_floor going on to the next floor when a floor with
\* enough rooms has no consecutive block, instead of returning its first rooms
RECURSIVE SameFloorBlocksOnly(_, _, _)
SameFloorBlocksOnly(available, floors, num_rooms) ==
    IF floors = <<>> THEN NoneList
    ELSE LET floor_rooms == Sorted(RoomsOfFloor(available, Head(floors)), "position")
             best_consecutive == ConsecutiveFrom(floor_rooms, num_rooms, 0)
         IN IF Len(floor_rooms) >= num_rooms /\ Truthy(best_consecutive)
            THEN best_consecutive
            ELSE SameFloorBlocksOnly(available, Tail(floors), num_rooms)

find_rooms_on_same_floor_blocks_only(rs, num_rooms) ==
    LET available == get_available_rooms(rs)
    IN SameFloorBlocksOnly(available, SortedFloors(AvailableFloors(available)), num_rooms)

\* find_rooms_on_same_floor visiting the floors from the highest down
\* (sorted(..., reverse=True))
find_rooms_on_same_floor_descending(rs, num_rooms) ==
    LET available == get_available_rooms(rs)
    IN SameFloorFrom(available, Reversed(SortedFloors(AvailableFloors(available))),
                     num_rooms)

find_rooms_on_same_floor(rs, num_rooms) ==
    LET available == get_available_rooms(rs)
    IN SameFloorFrom(available, SortedFloors(AvailableFloors(available)), num_rooms)

\* itertools.combinations(s, k): the k-subsequences of s, in lexicographic
\* order of their indices
RECURSIVE Combinations(_, _)
Combinations(s, k) ==
    IF k = 0 THEN << <<>> >>
    ELSE IF Len(s) < k THEN <<>>
    ELSE LET with_head == Combinations(Tail(s), k - 1)
         IN [i \in 1..Len(with_head) |-> <<Head(s)>> \o with_head[i]]
            \o Combinations(Tail(s), k)

\* the loop of _find_optimal_cross_floor_rooms over the combinations: the
\* incumbent is replaced only on travel_time < min_travel_time, so the loop
\* ends holding the first combination whose travel time is the least of all;
\* with no combination best_rooms stays None
BestCombination(combos) ==
    IF combos = <<>> THEN NoneList
    ELSE LET travel_time == [i \in 1..Len(combos) |-> calculate_total_travel_time(combos[i])]
             min_travel_time ==
                 CHOOSE t \in Range(travel_time) : \A u \in Range(travel_time) : t <= u
             first == CHOOSE i \in 1..Len(combos) :
                          /\ travel_time[i] = min_travel_time
                          /\ \A j \in 1..(i - 1) : travel_time[j] # min_travel_time
         IN SomeList(combos[first])

\* _find_optimal_cross_floor_rooms keeping the first combination it sees
_find_first_cross_floor_rooms(available_rooms, num_rooms) ==
    LET combos == Combinations(available_rooms, num_rooms)
    IN IF combos = <<>> THEN NoneList ELSE SomeList(combos[1])

_find_optimal_cross_floor_rooms(available_rooms, num_rooms) ==
    BestCombination(Combinations(available_rooms, num_rooms))

find_optimal_rooms(rs, num_rooms) ==
    LET same_floor_rooms == find_rooms_on_same_floor(rs, num_rooms)
        available_rooms == get_available_rooms(rs)
    IN IF Truthy(same_floor_rooms) THEN same_floor_rooms.list
       ELSE IF Len(available_rooms) < num_rooms THEN <<>>
       ELSE LET best_rooms == _find_optimal_cross_floor_rooms(available_rooms, num_rooms)
            IN IF Truthy(best_rooms) THEN best_rooms.list ELSE <<>>

----------------------------------------------------------------------------
(* Booking service *)

\* what a service call hands back to its caller; error is "none", or the kind
\* of the ValueError raised: "InvalidArgument" for "Number of rooms must be
\* between 1 and 5", "InsufficientInventory" for "Not enough rooms available.
\* Requested: {requested}, Available: {available}"
Outcome(op, num_rooms, guest_id, error, requested, available, numbers, time, paths) ==
    [op |-> op, num_rooms |-> num_rooms, guest_id |-> guest_id, percentage |-> 0,
     ok |-> (error = "none"), error |-> error,
     requested |-> requested, available |-> available,
     booked_room_numbers |-> numbers, total_travel_time |-> time,
     room_paths |-> paths]

NoCall == Outcome("none", 0, None, "none", 0, 0, <<>>, 0, <<>>)

\* room.status = RoomStatus.BOOKED; room.guest_id = guest_id, on the Room
\* object the dict holds under room_number
MarkBooked(rs, room_number, guest_id) ==
    [rs EXCEPT ![RoomIndex(rs, room_number)] =
        [@ EXCEPT !.status = BOOKED, !.guest_id = guest_id]]

\* the loop of book_rooms stopping one room short (range(len - 1))
BookEachButLast(rs, optimal_rooms, i, guest_id) ==
    [k \in 1..Len(rs) |->
        IF \E j \in i..(Len(optimal_rooms) - 1) :
               optimal_rooms[j].room_number = rs[k].room_number
        THEN [rs[k] EXCEPT !.status = BOOKED, !.guest_id = guest_id]
        ELSE rs[k]]

\* the loop of book_rooms over optimal_rooms, from room i (1-based)
RECURSIVE BookEach(_, _, _, _)
BookEach(rs, optimal_rooms, i, guest_id) ==
    IF i > Len(optimal_rooms) THEN rs
    ELSE BookEach(MarkBooked(rs, optimal_rooms[i].room_number, guest_id),
                  optimal_rooms, i + 1, guest_id)

\* the range check with the upper end excluded (>= 5)
OutOfRangeUpperExcluded(num_rooms) == num_rooms < MinRequest \/ num_rooms >= MaxRequest

\* if num_rooms < 1 or num_rooms > 5
OutOfRange(num_rooms) == num_rooms < MinRequest \/ num_rooms > MaxRequest

\* book_rooms: the inventory it leaves and what it returns or raises
book_rooms(rs, num_rooms, guest_id) ==
    IF OutOfRange(num_rooms)
    THEN [rooms |-> rs,
          outcome |-> Outcome("book", num_rooms, guest_id, "InvalidArgument",
                              0, 0, <<>>, 0, <<>>)]
    ELSE LET optimal_rooms == find_optimal_rooms(rs, num_rooms)
         IN IF Len(optimal_rooms) < num_rooms
            THEN [rooms |-> rs,
                  outcome |-> Outcome("book", num_rooms, guest_id,
                                      "InsufficientInventory", num_rooms,
                                      Len(get_available_rooms(rs)), <<>>, 0, <<>>)]
            ELSE [rooms |-> BookEach(rs, optimal_rooms, 1, guest_id),
                  outcome |-> Outcome("book", num_rooms, guest_id, "none", 0, 0,
                      RoomNumbersOf(optimal_rooms),
                      calculate_total_travel_time(optimal_rooms),
                      [i \in 1..Len(optimal_rooms) |->
                          get_path_from_reception(optimal_rooms[i])])]

\* reset_all_bookings without its line room.guest_id = None
reset_keeping_guests(rs) ==
    [i \in 1..Len(rs) |-> [rs[i] EXCEPT !.status = AVAILABLE]]

\* reset_all_bookings without its line room.status = RoomStatus.AVAILABLE
reset_keeping_status(rs) ==
    [i \in 1..Len(rs) |-> [rs[i] EXCEPT !.guest_id = None]]

\* reset_all_bookings
reset_all_bookings(rs) ==
    [i \in 1..Len(rs) |-> [rs[i] EXCEPT !.status = AVAILABLE, !.guest_id = None]]

\* f"guest_{random.randint(1000, 9999)}"
SyntheticGuest(n) == "guest_" \o ToString(n)

\* the loop of generate_random_occupancy: for i in range(count) the room
\* shuffled[i] is marked BOOKED with the guest of the i-th draw; shuffled holds
\* every key once, so each room is written at most once
OccupyEach(rs, shuffled, draws, count) ==
    LET chosen == {shuffled[i] : i \in 1..count}
    IN [k \in 1..Len(rs) |->
          IF rs[k].room_number \in chosen
          THEN LET i == CHOOSE i \in 1..count : shuffled[i] = rs[k].room_number
               IN [rs[k] EXCEPT !.status = BOOKED,
                                !.guest_id = SyntheticGuest(draws[i])]
          ELSE rs[k]]

\* int(total_rooms * occupancy_percentage / 100) for a percentage that is a
\* whole number in [0, 100]: the product is exact, and int() truncates
NumToBook(total_rooms, occupancy_percentage) ==
    (total_rooms * occupancy_percentage) \div 100

\* generate_random_occupancy without its first line self.reset_all_bookings()
generate_random_occupancy_without_reset(rs, occupancy_percentage, shuffled, draws) ==
    LET total_rooms == Len(rs)
        num_to_book == NumToBook(total_rooms, occupancy_percentage)
    IN OccupyEach(rs, shuffled, draws, Min(num_to_book, Len(shuffled)))

\* generate_random_occupancy, where shuffled is what random.shuffle left in
\* available_room_numbers and draws[i] is the i-th random.randint
generate_random_occupancy(rs, occupancy_percentage, shuffled, draws) ==
    LET cleared == reset_all_bookings(rs)
        total_rooms == Len(cleared)
        num_to_book == NumToBook(total_rooms, occupancy_percentage)
    IN OccupyEach(cleared, shuffled, draws, Min(num_to_book, Len(shuffled)))

----------------------------------------------------------------------------
(* Operations as actions *)

\* the callers that may be inside book_rooms at the same time
Callers == {"a", "b"}

\* a caller that has not entered book_rooms: pc is where its call stands,
\* the other fields are the locals of book_rooms (written counts the
\* iterations its loop over optimal_rooms has made)
IdleCall ==
    [pc |-> "idle", num_rooms |-> 0, guest_id |-> None, optimal_rooms |-> <<>>,
     written |-> 0, outcome |-> NoCall]

NoCalls == [c \in Callers |-> IdleCall]

Init ==
    /\ rooms = InitialRooms
    /\ result = NoCall
    /\ history = <<>>
    /\ calls = NoCalls

\* POST /book
Book(num_rooms, guest_id) ==
    LET call == book_rooms(rooms, num_rooms, guest_id)
    IN /\ rooms' = call.rooms
       /\ result' = call.outcome
       /\ history' = Append(history,
              [num_rooms |-> num_rooms, guest_id |-> guest_id,
               ok |-> call.outcome.ok,
               booked_room_numbers |-> call.outcome.booked_room_numbers])
       /\ UNCHANGED calls

\* POST /reset
ResetAll ==
    /\ rooms' = reset_all_bookings(rooms)
    /\ result' = Outcome("reset", 0, None, "none", 0, 0, <<>>, 0, <<>>)
    /\ history' = <<>>
    /\ UNCHANGED calls

\* POST /random-occupancy
RandomOccupancy(occupancy_percentage, shuffled, draws) ==
    /\ rooms' = generate_random_occupancy(rooms, occupancy_percentage, shuffled, draws)
    /\ result' = [Outcome("random", 0, None, "none", 0, 0, <<>>, 0, <<>>)
                      EXCEPT !.percentage = occupancy_percentage]
    /\ history' = <<>>
    /\ UNCHANGED calls

----------------------------------------------------------------------------
(* Inputs of the calls *)

\* how many book calls are followed since the inventory was last reset
MaxBooks == 2

\* num_rooms as a caller may pass it: the valid sizes and one beyond each end
BookSizes == (MinRequest - 1)..(MaxRequest + 1)

\* guest_id as a caller may pass it: omitted, or a string
GuestArgs == {None, "guest_a"}

\* the room numbers position by position: every floor's first room, then
\* every floor's second room, ...
RECURSIVE ByPositionFrom(_, _)
ByPositionFrom(rs, position) ==
    IF position >= RoomsPerFloor THEN <<>>
    ELSE RoomNumbersOf(SelectSeq(rs, LAMBDA r : r.position = position))
         \o ByPositionFrom(rs, position + 1)

ByPosition(rs) == ByPositionFrom(rs, 0)

\* outcomes of the successive random.randint(1000, 9999) calls: the two ends
\* of the range in turn
AlternatingDraws(rs) ==
    [i \in 1..Len(rs) |-> IF i % 2 = 1 THEN RandintLow ELSE RandintHigh]

OccupancyInput(occupancy_percentage, shuffled, draws) ==
    [occupancy_percentage |-> occupancy_percentage, shuffled |-> shuffled,
     draws |-> draws]

\* calls of generate_random_occupancy: a percentage in [0, 100] with an
\* outcome of random.shuffle(available_room_numbers). A half with the rooms
\* taken position by position, all but two rooms with the list left as it was
\* (1006 and 1007 stay free) and position by position (810 and 910 stay
\* free), and every room
OccupancyInputs(rs) ==
    {OccupancyInput(50, ByPosition(rs), AlternatingDraws(rs)),
     OccupancyInput(98, RoomKeys(rs), AlternatingDraws(rs)),
     OccupancyInput(98, ByPosition(rs), AlternatingDraws(rs)),
     OccupancyInput(100, RoomKeys(rs), AlternatingDraws(rs))}

Next ==
    \/ \E num_rooms \in BookSizes, guest_id \in GuestArgs :
          /\ Len(history) < MaxBooks
          /\ Book(num_rooms, guest_id)
    \/ ResetAll
    \/ \E input \in OccupancyInputs(rooms) :
          RandomOccupancy(input.occupancy_percentage, input.shuffled, input.draws)

Spec == Init /\ [][Next]_vars

----------------------------------------------------------------------------
(* The allocator on inventories that random occupancy leaves *)

\* the lowest floors are the ones left with free rooms
PoolFloors == 3

\* the positions left free on one floor: none; the far end; two rooms apart;
\* a gap before a pair; pairs and a single room; a long block between gaps
FloorPatterns ==
    {{}, {9}, {1, 3}, {0, 2, 3}, {0, 1, 3, 4, 6}, {0, 2, 3, 4, 5, 6, 8}}

\* the room numbers left free when floor f keeps the positions free[f]
FreeNumbers(free) ==
    {place[1] * 100 + (place[2] + 1) :
        place \in {fp \in (DOMAIN free) \X (0..(RoomsPerFloor - 1)) : fp[2] \in free[fp[1]]}}

\* an outcome of random.shuffle that ends with the given room numbers
ShuffleEndingWith(rs, numbers) ==
    SelectSeq(RoomKeys(rs), LAMBDA n : n \notin numbers)
    \o SelectSeq(RoomKeys(rs), LAMBDA n : n \in numbers)

\* the whole percentage for which generate_random_occupancy books count rooms
PercentageBooking(total_rooms, count) ==
    CHOOSE percentage \in 0..100 : NumToBook(total_rooms, percentage) = count

\* calls of generate_random_occupancy that leave free exactly the rooms of a
\* choice of patterns for the lowest floors, and the call with percentage 0
AllocatorInputs(rs) ==
    {OccupancyInput(PercentageBooking(Len(rs), Len(rs) - Cardinality(FreeNumbers(free))),
                    ShuffleEndingWith(rs, FreeNumbers(free)), AlternatingDraws(rs)) :
        free \in [1..PoolFloors -> FloorPatterns]}
    \cup {OccupancyInput(0, RoomKeys(rs), AlternatingDraws(rs))}

\* the inventory after construction and one call of generate_random_occupancy
InitAlloc ==
    /\ \E input \in AllocatorInputs(InitialRooms) :
          /\ rooms = generate_random_occupancy(InitialRooms, input.occupancy_percentage,
                                               input.shuffled, input.draws)
          /\ result = [Outcome("random", 0, None, "none", 0, 0, <<>>, 0, <<>>)
                          EXCEPT !.percentage = input.occupancy_percentage]
    /\ history = <<>>
    /\ calls = NoCalls

\* one book call of a valid size on that inventory
NextAlloc ==
    \E num_rooms \in MinRequest..MaxRequest, guest_id \in {"guest_a"} :
        /\ history = <<>>
        /\ Book(num_rooms, guest_id)

SpecAlloc == InitAlloc /\ [][NextAlloc]_vars

----------------------------------------------------------------------------
(* A fresh inventory filled by successive book calls *)

\* how many book calls in a row are followed from the fresh inventory
ScenarioCalls == 11

\* the sizes asked for: single rooms, and a party of four
ScenarioSizes == {1, 4}

NextScenario ==
    \E num_rooms \in ScenarioSizes, guest_id \in {None} :
        /\ Len(history) < ScenarioCalls
        /\ Book(num_rooms, guest_id)

SpecScenario == Init /\ [][NextScenario]_vars

----------------------------------------------------------------------------
(* Random occupancy at every whole percentage *)

\* calls of generate_random_occupancy with each whole percentage of [0, 100],
\* the shuffle leaving the list as it was or position by position
EveryPercentage(rs) ==
    {OccupancyInput(percentage, shuffled, AlternatingDraws(rs)) :
        percentage \in 0..100, shuffled \in {RoomKeys(rs), ByPosition(rs)}}

NextOccupancy ==
    \/ \E input \in EveryPercentage(rooms) :
          RandomOccupancy(input.occupancy_percentage, input.shuffled, input.draws)
    \/ ResetAll

SpecOccupancy == Init /\ [][NextOccupancy]_vars

----------------------------------------------------------------------------
(* book_rooms called by two callers at once *)

\* book_rooms holds no lock and makes several accesses to self.rooms: the
\* read of find_rooms_on_same_floor, the read of find_optimal_rooms when no
\* floor serves the request, the read for the message of the ValueError, and
\* two attribute writes per room of optimal_rooms. Between two accesses of
\* one call the accesses of another call may run. The endpoint of main.py
\* is an async def that calls book_rooms without awaiting, so the event loop
\* of one server runs its calls one after the other (Book); the steps below
\* are those of callers that run book_rooms on threads of their own.

\* the largest size the two callers ask for
RaceMaxRooms == 3

\* num_rooms as the callers pass it: the sizes up to RaceMaxRooms (none
\* above MaxRequest) and the size below the range
RaceSizes == (MinRequest - 1)..Min(RaceMaxRooms, MaxRequest)

\* each caller books for a guest of its own
GuestOf(c) == "guest_" \o c

\* what book_rooms returns once its loop has run
Booked(call) ==
    Outcome("book", call.num_rooms, call.guest_id, "none", 0, 0,
            RoomNumbersOf(call.optimal_rooms),
            calculate_total_travel_time(call.optimal_rooms),
            [i \in 1..Len(call.optimal_rooms) |->
                get_path_from_reception(call.optimal_rooms[i])])

\* the call after the check of line 214 on the rooms find_optimal_rooms
\* returned: it goes on to the ValueError, or to the loop
Chosen(call, optimal_rooms) ==
    [call EXCEPT !.optimal_rooms = optimal_rooms,
                 !.pc = IF Len(optimal_rooms) < call.num_rooms
                        THEN "raise" ELSE "commit"]

\* one iteration of the loop that looks at the room again and gives the call
\* up with a ValueError when the room is no longer AVAILABLE
commit_room_if_available(rs, call) ==
    LET room == call.optimal_rooms[call.written + 1]
    IN IF rs[RoomIndex(rs, room.room_number)].status # AVAILABLE
       THEN [rooms |-> rs,
             call |-> [call EXCEPT !.pc = "done",
                          !.outcome = Outcome("book", call.num_rooms, call.guest_id,
                                              "InsufficientInventory", call.num_rooms,
                                              Len(get_available_rooms(rs)),
                                              <<>>, 0, <<>>)]]
       ELSE [rooms |-> MarkBooked(rs, room.room_number, call.guest_id),
             call |-> IF call.written + 1 = Len(call.optimal_rooms)
                      THEN [call EXCEPT !.written = @ + 1, !.pc = "done",
                                        !.outcome = Booked(call)]
                      ELSE [call EXCEPT !.written = @ + 1]]

\* one iteration of "for room in optimal_rooms": the room is written whatever
\* its status has become; after the last one book_rooms returns
commit_room(rs, call) ==
    LET room == call.optimal_rooms[call.written + 1]
    IN [rooms |-> MarkBooked(rs, room.room_number, call.guest_id),
        call |-> IF call.written + 1 = Len(call.optimal_rooms)
                 THEN [call EXCEPT !.written = @ + 1, !.pc = "done",
                                   !.outcome = Booked(call)]
                 ELSE [call EXCEPT !.written = @ + 1]]

\* caller c moves on to the call record call; a call that has returned or
\* raised is recorded as the serial Book records it
Proceed(c, call) ==
    /\ calls' = [calls EXCEPT ![c] = call]
    /\ IF call.pc = "done"
       THEN /\ result' = call.outcome
            /\ history' = Append(history,
                   [num_rooms |-> call.num_rooms, guest_id |-> call.guest_id,
                    ok |-> call.outcome.ok,
                    booked_room_numbers |-> call.outcome.booked_room_numbers])
       ELSE UNCHANGED <<result, history>>

\* caller c enters book_rooms: the range check, then find_optimal_rooms up to
\* the return of find_rooms_on_same_floor (one read of the inventory)
FindSameFloor(c, num_rooms, guest_id) ==
    /\ calls[c].pc = "idle"
    /\ LET call == [calls[c] EXCEPT !.num_rooms = num_rooms, !.guest_id = guest_id]
           same_floor_rooms == find_rooms_on_same_floor(rooms, num_rooms)
       IN IF OutOfRange(num_rooms)
          THEN Proceed(c, [call EXCEPT !.pc = "done",
                              !.outcome = Outcome("book", num_rooms, guest_id,
                                                  "InvalidArgument", 0, 0, <<>>, 0, <<>>)])
          ELSE IF Truthy(same_floor_rooms)
          THEN Proceed(c, Chosen(call, same_floor_rooms.list))
          ELSE Proceed(c, [call EXCEPT !.pc = "cross_floor"])
    /\ UNCHANGED rooms

\* the rest of find_optimal_rooms: a second read of the inventory, and the
\* search across floors in what it shows
FindCrossFloor(c) ==
    /\ calls[c].pc = "cross_floor"
    /\ LET call == calls[c]
           available_rooms == get_available_rooms(rooms)
           best_rooms == _find_optimal_cross_floor_rooms(available_rooms, call.num_rooms)
       IN Proceed(c, Chosen(call,
              IF Len(available_rooms) < call.num_rooms THEN <<>>
              ELSE IF Truthy(best_rooms) THEN best_rooms.list ELSE <<>>))
    /\ UNCHANGED rooms

\* the ValueError of line 215, whose message reads the inventory once more
RaiseNotEnough(c) ==
    /\ calls[c].pc = "raise"
    /\ LET call == calls[c]
       IN Proceed(c, [call EXCEPT !.pc = "done",
                         !.outcome = Outcome("book", call.num_rooms, call.guest_id,
                                             "InsufficientInventory", call.num_rooms,
                                             Len(get_available_rooms(rooms)),
                                             <<>>, 0, <<>>)])
    /\ UNCHANGED rooms

\* one iteration of the loop of book_rooms
CommitRoom(c) ==
    /\ calls[c].pc = "commit"
    /\ LET step == commit_room(rooms, calls[c])
       IN /\ rooms' = step.rooms
          /\ Proceed(c, step.call)

\* the inventories the two calls start from: the fresh one, and the ones the
\* calls of OccupancyInputs leave
RaceInputs(rs) ==
    OccupancyInputs(rs) \cup {OccupancyInput(0, RoomKeys(rs), AlternatingDraws(rs))}

\* the inventory after construction and one call of generate_random_occupancy,
\* no caller inside book_rooms
InitRace ==
    /\ \E input \in RaceInputs(InitialRooms) :
          /\ rooms = generate_random_occupancy(InitialRooms, input.occupancy_percentage,
                                               input.shuffled, input.draws)
          /\ result = [Outcome("random", 0, None, "none", 0, 0, <<>>, 0, <<>>)
                          EXCEPT !.percentage = input.occupancy_percentage]
    /\ history = <<>>
    /\ calls = NoCalls

\* each caller makes one call of book_rooms; the steps of the two calls
\* interleave in every order
NextRace ==
    \E c \in Callers :
        \/ \E num_rooms \in RaceSizes : FindSameFloor(c, num_rooms, GuestOf(c))
        \/ FindCrossFloor(c)
        \/ RaiseNotEnough(c)
        \/ CommitRoom(c)

SpecRace == InitRace /\ [][NextRace]_vars

----------------------------------------------------------------------------
(* Properties of the booking service *)

\* the room numbers with a given status
NumbersWithStatus(rs, status) ==
    {rs[i].room_number : i \in {k \in 1..Len(rs) : rs[k].status = status}}

AvailableNumbers(rs) == NumbersWithStatus(rs, AVAILABLE)

BookedNumbers(rs) == NumbersWithStatus(rs, BOOKED)

\* the floor a room number lies on
FloorOf(room_number) == room_number \div 100

\* the inventory that _initialize_rooms is documented to build
ExpectedRoomNumbers ==
    {floor * 100 + position + 1 : floor \in 1..9, position \in 0..9}
    \cup {10 * 100 + position + 1 : position \in 0..6}

\* C1: a book call has no partial success. Either it succeeds and returns
\* exactly num_rooms distinct room numbers, all AVAILABLE before and BOOKED
\* after (the booked count rises and the available count falls by exactly
\* num_rooms) while every other room is untouched, or it fails and leaves the
\* status and guest identifier of every room as they were.
C1_NoPartialSuccess ==
    [][result'.op = "book" =>
        LET num_rooms == result'.num_rooms
            returned == result'.booked_room_numbers
        IN \/ /\ result'.ok
              /\ Len(returned) = num_rooms
              /\ Cardinality(Range(returned)) = num_rooms
              /\ Range(returned) \subseteq AvailableNumbers(rooms)
              /\ Range(returned) \subseteq BookedNumbers(rooms')
              /\ get_statistics(rooms').booked_rooms
                    = get_statistics(rooms).booked_rooms + num_rooms
              /\ Len(get_available_rooms(rooms'))
                    = Len(get_available_rooms(rooms)) - num_rooms
              /\ Len(rooms') = Len(rooms)
              /\ \A i \in 1..Len(rooms) :
                    rooms[i].room_number \notin Range(returned) => rooms'[i] = rooms[i]
           \/ /\ ~result'.ok
              /\ returned = <<>>
              /\ Len(rooms') = Len(rooms)
              /\ \A i \in 1..Len(rooms) :
                    /\ rooms'[i].status = rooms[i].status
                    /\ rooms'[i].guest_id = rooms[i].guest_id
    ]_vars

\* a second book call in a row succeeded with rooms on two floors, after an
\* earlier call of the same run had failed or succeeded
C1_Witness ==
    /\ result.op = "book"
    /\ result.ok
    /\ result.num_rooms = 2
    /\ Len(history) = 2
    /\ Cardinality({FloorOf(n) : n \in Range(result.booked_room_numbers)}) = 2
    /\ Range(result.booked_room_numbers) \subseteq BookedNumbers(rooms)

\* C2: whatever was called, the inventory holds exactly the 97 rooms built at
\* initialization (number = floor * 100 + position + 1), statistics reports
\* total 97, and the listed available rooms plus the BOOKED rooms make 97.
C2_InventoryFixed ==
    /\ Len(rooms) = 97
    /\ Range(RoomNumbersOf(rooms)) = ExpectedRoomNumbers
    /\ Cardinality(ExpectedRoomNumbers) = 97
    /\ \A i \in 1..Len(rooms) :
          /\ rooms[i].room_number = rooms[i].floor * 100 + rooms[i].position + 1
          /\ rooms[i].status \in {AVAILABLE, BOOKED}
    /\ get_statistics(rooms).total_rooms = 97
    /\ Len(get_available_rooms(rooms)) + Cardinality(BookedNumbers(rooms)) = 97
    /\ get_statistics(rooms).available_rooms + get_statistics(rooms).booked_rooms
          = get_statistics(rooms).total_rooms

\* a failing book call after a successful one, on an inventory that random
\* occupancy had filled up to a few rooms
C2_Witness ==
    /\ Len(history) = 2
    /\ history[1].ok
    /\ ~history[2].ok
    /\ get_statistics(rooms).booked_rooms > 90

\* C3 as stated: a room has a guest identifier iff it is BOOKED.
C3_GuestIffBooked ==
    \A i \in 1..Len(rooms) :
        (rooms[i].guest_id # None) <=> (rooms[i].status = BOOKED)

\* C3, amended: no AVAILABLE room carries a guest identifier, and a BOOKED
\* room lacks one only if a book call made without guest_id returned it.
C3_GuestOnlyIfBooked ==
    \A i \in 1..Len(rooms) :
        /\ rooms[i].guest_id # None => rooms[i].status = BOOKED
        /\ (rooms[i].status = BOOKED /\ rooms[i].guest_id = None) =>
              \E k \in 1..Len(history) :
                  /\ history[k].guest_id = None
                  /\ rooms[i].room_number \in Range(history[k].booked_room_numbers)

\* rooms booked by random occupancy, by a call with a guest_id and by a call
\* without one stand side by side
C3_Witness ==
    /\ \E i \in 1..Len(rooms) :
          rooms[i].status = BOOKED /\ rooms[i].guest_id = None
    /\ \E i \in 1..Len(rooms) :
          rooms[i].status = BOOKED /\ rooms[i].guest_id = "guest_a"
    /\ \E i \in 1..Len(rooms) :
          rooms[i].status = BOOKED /\ rooms[i].guest_id = SyntheticGuest(RandintHigh)
    /\ \E i \in 1..Len(rooms) : rooms[i].status = AVAILABLE

\* C4: book(num_rooms) succeeds exactly when 1 <= num_rooms <= 5 and at least
\* num_rooms rooms are AVAILABLE; outside [1, 5] it fails with
\* InvalidArgument whatever the inventory; otherwise it fails with
\* InsufficientInventory exactly when fewer than num_rooms rooms are
\* AVAILABLE, reporting the requested count and the number available.
C4_BookOutcome ==
    [][result'.op = "book" =>
        LET num_rooms == result'.num_rooms
            free == Cardinality(AvailableNumbers(rooms))
            valid == 1 <= num_rooms /\ num_rooms <= 5
        IN /\ result'.ok <=> (valid /\ free >= num_rooms)
           /\ ~valid <=> result'.error = "InvalidArgument"
           /\ (valid /\ free < num_rooms) <=> result'.error = "InsufficientInventory"
           /\ result'.error = "InsufficientInventory" =>
                 /\ result'.requested = num_rooms
                 /\ result'.available = free
    ]_vars

\* 95 of the 97 rooms are occupied and book(5) has failed reporting 2 available
C4_Witness ==
    /\ result.op = "book"
    /\ result.num_rooms = 5
    /\ result.error = "InsufficientInventory"
    /\ result.requested = 5
    /\ result.available = 2
    /\ get_statistics(rooms).booked_rooms = 95

\* C9: reset_all leaves all 97 rooms AVAILABLE with no guest identifier
\* (statistics 97, 0, 97), and a second reset_all changes nothing.
C9_ResetAll ==
    LET once == reset_all_bookings(rooms)
        twice == reset_all_bookings(once)
    IN /\ \A i \in 1..Len(once) :
             once[i].status = AVAILABLE /\ once[i].guest_id = None
       /\ get_statistics(once)
             = [total_rooms |-> 97, booked_rooms |-> 0, available_rooms |-> 97]
       /\ twice = once
       /\ get_statistics(twice) = get_statistics(once)
       /\ result.op = "reset" => rooms = once

\* reset_all has just run and the inventory is free again
C9_Witness ==
    /\ result.op = "reset"
    /\ get_statistics(rooms).booked_rooms = 0
    /\ Len(get_available_rooms(rooms)) = 97

----------------------------------------------------------------------------
(* Properties of the allocator, against the allocation policy as documented *)

Floors == 1..10

\* the positions free on a floor
FreeOnFloor(rs, floor) ==
    {rs[i].position : i \in {k \in 1..Len(rs) :
                                 rs[k].floor = floor /\ rs[k].status = AVAILABLE}}

\* the floors with at least num_rooms free rooms
FloorsWithRoomFor(rs, num_rooms) ==
    {floor \in Floors : Cardinality(FreeOnFloor(rs, floor)) >= num_rooms}

Lowest(S) == CHOOSE x \in S : \A y \in S : x <= y

Highest(S) == CHOOSE x \in S : \A y \in S : x >= y

\* the positions at which a block of num_rooms free consecutive rooms starts
BlockStarts(rs, floor, num_rooms) ==
    {start \in FreeOnFloor(rs, floor) :
        \A j \in 0..(num_rooms - 1) : start + j \in FreeOnFloor(rs, floor)}

\* tier 1 with a block: some floor has num_rooms free rooms and the lowest
\* such floor has a block of num_rooms consecutive free rooms
BlockCase(rs, num_rooms) ==
    /\ FloorsWithRoomFor(rs, num_rooms) # {}
    /\ BlockStarts(rs, Lowest(FloorsWithRoomFor(rs, num_rooms)), num_rooms) # {}

\* the block the policy names: on that floor, from the lowest start
PolicyBlock(rs, num_rooms) ==
    LET floor == Lowest(FloorsWithRoomFor(rs, num_rooms))
        start == Lowest(BlockStarts(rs, floor, num_rooms))
    IN [j \in 1..num_rooms |-> floor * 100 + start + j]

\* tier 1 without a block: the lowest floor with num_rooms free rooms has no
\* block of num_rooms consecutive free rooms
FallbackCase(rs, num_rooms) ==
    /\ FloorsWithRoomFor(rs, num_rooms) # {}
    /\ BlockStarts(rs, Lowest(FloorsWithRoomFor(rs, num_rooms)), num_rooms) = {}

\* the room numbers of the num_rooms lowest free positions of that floor
PolicyFallback(rs, num_rooms) ==
    LET floor == Lowest(FloorsWithRoomFor(rs, num_rooms))
        free == FreeOnFloor(rs, floor)
    IN {floor * 100 + position + 1 :
           position \in {q \in free : Cardinality({r \in free : r < q}) < num_rooms}}

\* tier 2: no floor has num_rooms free rooms, the hotel as a whole has
CrossFloorCase(rs, num_rooms) ==
    /\ FloorsWithRoomFor(rs, num_rooms) = {}
    /\ Cardinality(AvailableNumbers(rs)) >= num_rooms

\* travel time between two rooms given by number, as documented: positions
\* apart on one floor; else 2 per floor plus both positions
PolicyTravelTime(a, b) ==
    LET floor_a == a \div 100
        floor_b == b \div 100
        position_a == (a % 100) - 1
        position_b == (b % 100) - 1
    IN IF floor_a = floor_b
       THEN (IF position_a < position_b THEN position_b - position_a
             ELSE position_a - position_b)
       ELSE 2 * (IF floor_a < floor_b THEN floor_b - floor_a ELSE floor_a - floor_b)
            + position_a + position_b

\* total travel time of a set of rooms: between its first and its last room
\* in (floor, position) order, which is the order of the room numbers
PolicyTotalTravelTime(numbers) ==
    IF Cardinality(numbers) <= 1 THEN 0
    ELSE PolicyTravelTime(Lowest(numbers), Highest(numbers))

\* every combination of num_rooms free rooms
FreeCombinations(rs, num_rooms) ==
    {S \in SUBSET AvailableNumbers(rs) : Cardinality(S) = num_rooms}

Ascending(s) == \A i \in 1..(Len(s) - 1) : s[i] < s[i + 1]

\* C5: when the lowest floor with at least num_rooms free rooms has a block
\* of num_rooms free rooms at consecutive positions, the allocator returns
\* exactly the block with the lowest start on that floor, of total travel
\* time num_rooms - 1, and book returns it; book(4) on a fresh inventory
\* returns 101-104 with total travel time 3.
C5_ConsecutiveBlock ==
    /\ [](\A num_rooms \in 1..5 :
            BlockCase(rooms, num_rooms) =>
               LET found == find_optimal_rooms(rooms, num_rooms)
               IN /\ RoomNumbersOf(found) = PolicyBlock(rooms, num_rooms)
                  /\ calculate_total_travel_time(found) = num_rooms - 1)
    /\ [][result'.op = "book" =>
            /\ BlockCase(rooms, result'.num_rooms) =>
                  /\ result'.ok
                  /\ result'.booked_room_numbers = PolicyBlock(rooms, result'.num_rooms)
                  /\ result'.total_travel_time = result'.num_rooms - 1
            /\ (result'.num_rooms = 4 /\ BookedNumbers(rooms) = {}) =>
                  /\ result'.booked_room_numbers = <<101, 102, 103, 104>>
                  /\ result'.total_travel_time = 3
       ]_vars

\* floor 1 had one free room, floor 2 had 201, 203 and 204 free, and book(2)
\* returned the block 203-204, past the lower free rooms 110 and 201
C5_Witness ==
    /\ result.op = "book"
    /\ result.num_rooms = 2
    /\ result.booked_room_numbers = <<203, 204>>
    /\ result.total_travel_time = 1
    /\ FreeOnFloor(rooms, 1) = {9}
    /\ FreeOnFloor(rooms, 2) = {0}

\* C6: when no floor has num_rooms free rooms but the hotel has, the rooms
\* the allocator returns have a total travel time no greater than that of
\* any combination of num_rooms free rooms.
C6_CrossFloorOptimal ==
    /\ [](\A num_rooms \in 1..5 :
            CrossFloorCase(rooms, num_rooms) =>
               LET found == RoomNumbersOf(find_optimal_rooms(rooms, num_rooms))
               IN /\ Len(found) = num_rooms
                  /\ Range(found) \in FreeCombinations(rooms, num_rooms)
                  /\ \A S \in FreeCombinations(rooms, num_rooms) :
                        PolicyTotalTravelTime(Range(found)) <= PolicyTotalTravelTime(S))
    /\ [][(result'.op = "book" /\ CrossFloorCase(rooms, result'.num_rooms)) =>
            /\ result'.ok
            /\ result'.total_travel_time
                  = PolicyTotalTravelTime(Range(result'.booked_room_numbers))
            /\ \A S \in FreeCombinations(rooms, result'.num_rooms) :
                  result'.total_travel_time <= PolicyTotalTravelTime(S)
       ]_vars

\* 110, 202, 204, 302 and 304 were free and book(3) returned 202, 204 and 302
\* (travel time 4), not the first combination 110, 202, 204 (travel time 14)
C6_Witness ==
    /\ result.op = "book"
    /\ result.num_rooms = 3
    /\ result.booked_room_numbers = <<202, 204, 302>>
    /\ result.total_travel_time = 4
    /\ AvailableNumbers(rooms) = {110, 304}

\* C10: when the lowest floor with at least num_rooms free rooms has no block
\* of num_rooms consecutive free rooms, the allocator returns the num_rooms
\* lowest-position free rooms of that floor, whatever higher floors offer.
C10_FirstQualifyingFloor ==
    /\ [](\A num_rooms \in 1..5 :
            FallbackCase(rooms, num_rooms) =>
               LET found == RoomNumbersOf(find_optimal_rooms(rooms, num_rooms))
               IN /\ Len(found) = num_rooms
                  /\ Ascending(found)
                  /\ Range(found) = PolicyFallback(rooms, num_rooms))
    /\ [][(result'.op = "book" /\ FallbackCase(rooms, result'.num_rooms)) =>
            /\ result'.ok
            /\ Ascending(result'.booked_room_numbers)
            /\ Range(result'.booked_room_numbers)
                  = PolicyFallback(rooms, result'.num_rooms)
       ]_vars

\* floor 1 had only 102 and 104 free, floor 2 had the block 203-204 free, and
\* book(2) returned 102 and 104 (travel time 2, against 1 for the block)
C10_Witness ==
    /\ result.op = "book"
    /\ result.num_rooms = 2
    /\ result.booked_room_numbers = <<102, 104>>
    /\ result.total_travel_time = 2
    /\ FreeOnFloor(rooms, 1) = {}
    /\ {2, 3} \subseteq FreeOnFloor(rooms, 2)

----------------------------------------------------------------------------
(* Properties of runs of calls *)

\* the first count calls since the reset were all book(1)
SinglesFirst(count) ==
    /\ Len(history) >= count
    /\ \A k \in 1..count : history[k].num_rooms = 1

\* the rooms the first count calls since the reset returned
ReturnedByFirst(count) ==
    UNION {Range(history[k].booked_room_numbers) : k \in 1..count}

\* C7: from a fresh inventory ten successive book(1) calls occupy exactly
\* 101-110, no room of another floor being touched before floor 1 is full,
\* and a following book(4) returns 201-204.
C7_FloorByFloor ==
    /\ \A count \in 1..10 :
          SinglesFirst(count) =>
             /\ \A k \in 1..count : history[k].ok
             /\ ReturnedByFirst(count) \subseteq 101..110
             /\ Cardinality(ReturnedByFirst(count)) = count
    /\ (SinglesFirst(10) /\ Len(history) = 10) => BookedNumbers(rooms) = 101..110
    /\ (SinglesFirst(10) /\ Len(history) >= 11 /\ history[11].num_rooms = 4) =>
          /\ history[11].ok
          /\ history[11].booked_room_numbers = <<201, 202, 203, 204>>
    /\ (SinglesFirst(10) /\ Len(history) = 11 /\ history[11].num_rooms = 4) =>
          BookedNumbers(rooms) = (101..110) \cup (201..204)

\* ten book(1) calls and then book(4) have run
C7_Witness ==
    /\ SinglesFirst(10)
    /\ Len(history) = 11
    /\ history[11].num_rooms = 4
    /\ result.op = "book"
    /\ result.booked_room_numbers = <<201, 202, 203, 204>>
    /\ BookedNumbers(rooms) = (101..110) \cup (201..204)

\* C8: after random_occupancy(percentage), whatever was booked before,
\* exactly round_down(97 * percentage / 100) rooms are BOOKED and the rest
\* AVAILABLE; 50 leaves 48 booked and 49 available, 30 leaves some booked.
C8_RandomOccupancyCount ==
    result.op = "random" =>
        /\ Cardinality(BookedNumbers(rooms)) = (97 * result.percentage) \div 100
        /\ Cardinality(AvailableNumbers(rooms))
              = 97 - ((97 * result.percentage) \div 100)
        /\ get_statistics(rooms).booked_rooms = (97 * result.percentage) \div 100
        /\ result.percentage = 50 =>
              /\ get_statistics(rooms).booked_rooms = 48
              /\ get_statistics(rooms).available_rooms = 49
        /\ result.percentage = 30 => get_statistics(rooms).booked_rooms > 0

\* random_occupancy(50) has run, position by position: 48 booked, 49 free
C8_Witness ==
    /\ result.op = "random"
    /\ result.percentage = 50
    /\ get_statistics(rooms)
          = [total_rooms |-> 97, booked_rooms |-> 48, available_rooms |-> 49]
    /\ 201 \in BookedNumbers(rooms)
    /\ 110 \in AvailableNumbers(rooms)

----------------------------------------------------------------------------
(* Two book calls at once *)

\* the room numbers a call has chosen
ChosenNumbers(call) == Range(RoomNumbersOf(call.optimal_rooms))

\* the room numbers a call has chosen and not yet written
Unwritten(call) ==
    {call.optimal_rooms[i].room_number :
        i \in (call.written + 1)..Len(call.optimal_rooms)}

\* the room numbers whose record differs between two inventories
Rewritten(before, after) ==
    {before[k].room_number : k \in {k \in 1..Len(before) : before[k] # after[k]}}

\* a call that has chosen its rooms runs to a successful return of exactly
\* those rooms, whatever the other call does: nothing looks at a room again
ChosenIsReturned ==
    \A c \in Callers :
        LET call == calls[c]
        IN /\ call.pc = "commit" =>
                /\ Len(call.optimal_rooms) = call.num_rooms
                /\ call.written < call.num_rooms
           /\ (call.pc = "done" /\ call.optimal_rooms # <<>>) =>
                /\ call.outcome.ok
                /\ call.outcome.booked_room_numbers = RoomNumbersOf(call.optimal_rooms)
                /\ Len(call.outcome.booked_room_numbers) = call.num_rooms
                /\ call.written = call.num_rooms
           /\ \A i \in 1..call.written :
                rooms[RoomIndex(rooms, call.optimal_rooms[i].room_number)].status = BOOKED

\* a step of the find part writes nothing; a step of the commit part writes
\* one room, the next of the chosen ones, to BOOKED for the call's guest
OneWritePerRoom ==
    \A c \in Callers :
        calls'[c] # calls[c] =>
            IF calls[c].pc = "commit"
            THEN LET number == calls[c].optimal_rooms[calls[c].written + 1].room_number
                     room == rooms'[RoomIndex(rooms, number)]
                 IN /\ Rewritten(rooms, rooms') = {number}
                    /\ room.status = BOOKED
                    /\ room.guest_id = calls[c].guest_id
                    /\ calls'[c].written = calls[c].written + 1
            ELSE rooms' = rooms

\* the rooms a call chooses are AVAILABLE when it chooses them, so they
\* overlap the other call's rooms only in rooms that call has chosen and not
\* yet written: a call that starts after the other returned shares no room
OverlapOnlyMidCall ==
    \A c \in Callers, d \in Callers :
        (c # d /\ calls[c].pc # "commit" /\ calls'[c].pc = "commit") =>
            /\ ChosenNumbers(calls'[c]) \subseteq AvailableNumbers(rooms)
            /\ (ChosenNumbers(calls'[c]) \cap ChosenNumbers(calls[d]))
                  \subseteq Unwritten(calls[d])
            /\ calls[d].pc \in {"idle", "done"} =>
                  ChosenNumbers(calls'[c]) \cap ChosenNumbers(calls[d]) = {}

\* C11: book_rooms is a find part that only reads the inventory and a commit
\* part of one write per chosen room, with no second look at a room; a call
\* that has chosen rooms returns them successfully even when the other call
\* chose or wrote them in between, and two calls share a room only when one
\* chose it after the other had chosen it and before the other wrote it.
C11_NonAtomicBook ==
    /\ []ChosenIsReturned
    /\ [][OneWritePerRoom]_vars
    /\ [][OverlapOnlyMidCall]_vars

\* both calls have returned successfully, with no reset in between, and a
\* room is in both returned lists
C11_Witness ==
    /\ \A c \in Callers : calls[c].pc = "done" /\ calls[c].outcome.ok
    /\ Len(history) = 2
    /\ history[1].ok /\ history[2].ok
    /\ Range(history[1].booked_room_numbers)
          \cap Range(history[2].booked_room_numbers) # {}
    /\ Range(history[1].booked_room_numbers)
          \cup Range(history[2].booked_room_numbers) \subseteq BookedNumbers(rooms)

====
